---------------------------- MODULE Spec2Model ----------------------------
(***************************************************************************)
(* A model of fetch_pubmed.py: the institution list is read, one PubMed    *)
(* search is issued per institution, the identifiers found are fetched in  *)
(* batches, every article of a batch is extracted and matched against the  *)
(* institution rules attributed to it, and the matched articles are        *)
(* printed and written to a tab-delimited report.                          *)
(*                                                                         *)
(* Python strings are sequences of code points, so that lower-casing,      *)
(* substring tests, splitting, sorting and the tab/newline replacement are *)
(* computed as the code computes them.                                     *)
(***************************************************************************)
EXTENDS Naturals, Sequences, FiniteSets

(***************************************************************************)
(* Bounds of the model.                                                    *)
(***************************************************************************)
\* Articles the fetch endpoint returns over one whole run, at most.
MaxArticles == 2
\* The large search result holds 2 * CHUNK_SIZE + ExtraIds identifiers.
ExtraIds == 0
\* Affiliation strings of one article in the matcher's own specification.
MaxAffs == 2

(***************************************************************************)
(* Characters the code names.                                              *)
(***************************************************************************)
TAB == 9
LF == 10
QUOTE == 34
HASH == 35
SEMI == 59

CHUNK_SIZE == 250

\* The characters str.strip() removes (the ASCII ones, NEL and NBSP).
Whitespace == {9, 10, 11, 12, 13, 28, 29, 30, 31, 32, 133, 160}

\* "NA"
SENTINEL == <<78, 65>>
\* "https://pubmed.gov/"
URL_BASE == <<104, 116, 116, 112, 115, 58, 47, 47, 112, 117, 98, 109, 101, 100, 46, 103, 111, 118, 47>>
\* "Title\tJournal\tDate\tPMID\tPubMed_URL\tInstitutes\n"
HEADER == <<84, 105, 116, 108, 101, 9, 74, 111, 117, 114, 110, 97, 108, 9, 68, 97, 116, 101, 9, 80, 77, 73, 68, 9, 80, 117, 98, 77, 101, 100, 95, 85, 82, 76, 9, 73, 110, 115, 116, 105, 116, 117, 116, 101, 115, 10>>

(***************************************************************************)
(* Python values: a str, or None.                                          *)
(***************************************************************************)
None == [none |-> TRUE, s |-> <<>>]
Str(s) == [none |-> FALSE, s |-> s]
\* `x or ''`
OrEmpty(x) == IF x.none THEN <<>> ELSE x.s
\* the truth value of a str-or-None
Truthy(x) == ~x.none /\ x.s # <<>>

(***************************************************************************)
(* String functions of the standard library, as the code uses them.        *)
(***************************************************************************)
Range(f) == {f[x] : x \in DOMAIN f}

\* str.lower(), on ASCII
LowerChar(c) == IF c \in 65..90 THEN c + 32 ELSE c
Lower(s) == [n \in 1..Len(s) |-> LowerChar(s[n])]

\* `sub in s`
Contains(sub, s) ==
    \E n \in 0..Len(s) : n + Len(sub) <= Len(s) /\ SubSeq(s, n + 1, n + Len(sub)) = sub

\* str.strip()
Strip(s) ==
    LET keep == {n \in 1..Len(s) : s[n] \notin Whitespace}
    IN  IF keep = {} THEN <<>>
        ELSE LET lo == CHOOSE n \in keep : \A m \in keep : n <= m
                 hi == CHOOSE n \in keep : \A m \in keep : m <= n
             IN  SubSeq(s, lo, hi)

\* str.split(sep) for a one-character separator: empty fields are kept
RECURSIVE Split(_, _)
Split(s, sep) ==
    LET at == {n \in 1..Len(s) : s[n] = sep}
    IN  IF at = {} THEN <<s>>
        ELSE LET first == CHOOSE n \in at : \A m \in at : n <= m
             IN  <<SubSeq(s, 1, first - 1)>> \o Split(SubSeq(s, first + 1, Len(s)), sep)

\* str.replace(c, '')
Remove(s, c) == SelectSeq(s, LAMBDA x : x # c)

\* str.replace('\t', ' ').replace('\n', ' ')
Sanitize_Identity(s) == s
Sanitize(s) == [n \in 1..Len(s) |-> IF s[n] \in {TAB, LF} THEN 32 ELSE s[n]]

\* str order: by code point, a proper prefix first
RECURSIVE StrLess(_, _)
StrLess(a, b) ==
    IF a = <<>> THEN b # <<>>
    ELSE IF b = <<>> THEN FALSE
    ELSE IF a[1] # b[1] THEN a[1] < b[1]
    ELSE StrLess(Tail(a), Tail(b))

\* sorted(set of str)
RECURSIVE Sorted(_)
Sorted(S) ==
    IF S = {} THEN <<>>
    ELSE LET least == CHOOSE a \in S : \A b \in S : a = b \/ StrLess(a, b)
         IN  <<least>> \o Sorted(S \ {least})

\* sep.join(list of str)
RECURSIVE Join(_, _)
Join(parts, sep) ==
    IF parts = <<>> THEN <<>>
    ELSE IF Len(parts) = 1 THEN parts[1]
    ELSE parts[1] \o <<sep>> \o Join(Tail(parts), sep)

\* str(n) of a natural number
RECURSIVE Digits(_)
Digits(n) == IF n < 10 THEN <<48 + n>> ELSE Digits(n \div 10) \o <<48 + (n % 10)>>

(***************************************************************************)
(* dict: insertion-ordered, as a sequence of [key, val] entries.           *)
(***************************************************************************)
Keys(d) == [n \in 1..Len(d) |-> d[n].key]
KeySet(d) == {d[n].key : n \in 1..Len(d)}
Get(d, k) == (CHOOSE e \in Range(d) : e.key = k).val
\* d[k] = v: an existing key keeps its position
Put(d, k, v) ==
    IF k \in KeySet(d)
    THEN LET at == CHOOSE n \in 1..Len(d) : d[n].key = k
         IN  SubSeq(d, 1, at - 1) \o <<[key |-> k, val |-> v]>> \o SubSeq(d, at + 1, Len(d))
    ELSE Append(d, [key |-> k, val |-> v])

(***************************************************************************)
(* read_institute_names: the institution list file, as its lines.          *)
(***************************************************************************)
\* One line of the loop: "skip", "bad" (the assert fails) or "rule".
LineKind(raw) ==
    LET line == Strip(raw)
    IN  IF line = <<>> \/ line[1] = HASH THEN "skip"
        ELSE IF Len(Split(line, TAB)) # 2 THEN "bad"
        ELSE "rule"
LineInstitute(raw) == Remove(Strip(Split(Strip(raw), TAB)[1]), QUOTE)
LineCountry(raw) == Strip(Split(Strip(raw), TAB)[2])

\* The dict after the first n lines; ok is FALSE once an assert has failed.
RECURSIVE ReadLines(_, _)
ReadLines(lines, n) ==
    IF n = 0 THEN [ok |-> TRUE, institutes |-> <<>>]
    ELSE LET before == ReadLines(lines, n - 1)
             raw == lines[n]
         IN  IF ~before.ok THEN before
             ELSE IF LineKind(raw) = "skip" THEN before
             ELSE IF LineKind(raw) = "bad" THEN [ok |-> FALSE, institutes |-> before.institutes]
             ELSE [ok |-> TRUE,
                   institutes |-> Put(before.institutes, LineInstitute(raw), LineCountry(raw))]
read_institute_names(lines) == ReadLines(lines, Len(lines))


(***************************************************************************)
(* The fetched XML: a document is the sequence of its PubmedArticle        *)
(* elements; an article holds the first element each find() looks for      *)
(* (absent, or present with its text, which is None for an empty element)  *)
(* and the texts of its Affiliation elements.                              *)
(***************************************************************************)
Missing == [elem |-> FALSE, text |-> None]
Empty == [elem |-> TRUE, text |-> None]
Text(s) == [elem |-> TRUE, text |-> Str(s)]
Article(pmid, title, journal, year, medline, affs) ==
    [PMID |-> pmid, ArticleTitle |-> title, JournalTitle |-> journal,
     Year |-> year, MedlineDate |-> medline, Affiliation |-> affs]

\* `elem.text if elem is not None else ''`
TextOrEmpty(field) == IF field.elem THEN field.text ELSE Str(<<>>)

\* lines 89-94: the Year element, else the MedlineDate element, else ''
PubDate_YearOnly(article) == TextOrEmpty(article.Year)
PubDate(article) ==
    IF article.Year.elem THEN article.Year.text ELSE TextOrEmpty(article.MedlineDate)

\* f"{x}"
Format(x) == IF x.none THEN <<78, 111, 110, 101>> ELSE x.s

\* line 101: the lower-cased texts of the Affiliation elements that have one
Affiliations(article) ==
    LET texts == SelectSeq(article.Affiliation, Truthy)
    IN  [n \in 1..Len(texts) |-> Lower(texts[n].s)]

VARIABLES
    pc,             \* where the program is
    instFile,       \* Section_1286_list.txt, as its lines
    output,         \* whether --output is given
    file,           \* the content of the output file
    fileCreated,    \* whether this run has opened the output file for writing
    inTry,          \* whether control is inside main's try block
    all_institutes, \* dict: institution name -> country
    k,              \* main's loop over all_institutes: the entry being searched
    all_pmids,      \* dict: pmid -> set of institution names
    i,              \* chunked(): the offset of the current chunk
    root,           \* the articles of the parsed document
    j,              \* the articles of root already processed
    rec,            \* the locals pmid, title, journal, pubdate, url, qry_institutes_str
    qry_institutes, \* the local of that name
    affiliations,   \* the local of that name
    matched,        \* the local of that name
    pubs,           \* the list of that name
    w,              \* the rows of pubs already written
    console,        \* what was printed to stdout
    exc,            \* the exception raised, "" when none
    stderr,         \* what was printed to stderr
    exitStatus,     \* the exit status, once pc = "exit"
    outstanding,    \* the network calls awaiting their response
    events,         \* the searches, fetches and sleeps so far, in order
    batches,        \* the identifier lists of the fetch calls so far
    fetched         \* the articles the fetch endpoint has returned so far

vars == <<pc, instFile, output, file, fileCreated, inTry, all_institutes, k, all_pmids, i,
          root, j, rec, qry_institutes, affiliations, matched, pubs, w, console, exc,
          stderr, exitStatus, outstanding, events, batches, fetched>>

inputVars == <<instFile, output>>
fileVars == <<file, fileCreated>>
searchVars == <<all_institutes, k, all_pmids>>
articleVars == <<rec, qry_institutes, affiliations, matched>>
fetchVars == <<i, root, j, pubs, fetched, batches>>
exitVars == <<exc, stderr, exitStatus>>

NoRec == [pmid |-> None, title |-> None, journal |-> None, pubdate |-> None,
          url |-> <<>>, institutes |-> <<>>]
\* One line (or block) of stdout.
Printed(kind, n, pub) == [kind |-> kind, n |-> n, pub |-> pub]

pmid_list == Keys(all_pmids)

(***************************************************************************)
(* institute_affiliation_match (lines 65-74), all_institutes from the      *)
(* enclosing scope.                                                        *)
(***************************************************************************)
RuleTest_NoSentinel(inst, affs) ==
    \E n \in 1..Len(affs) :
        /\ Contains(Lower(inst), affs[n])
        /\ Contains(Lower(Get(all_institutes, inst)), affs[n])
RuleTest_AnyString(inst, affs) ==
    LET country == Get(all_institutes, inst)
        inst_lower == Lower(inst)
    IN  IF country = SENTINEL /\ \E n \in 1..Len(affs) : Contains(inst_lower, affs[n])
        THEN TRUE
        ELSE /\ \E n \in 1..Len(affs) : Contains(inst_lower, affs[n])
             /\ \E n \in 1..Len(affs) : country # <<>> /\ Contains(Lower(country), affs[n])
\* One pass of the loop body: whether it returns True for inst.
RuleTest(inst, affs) ==
    LET country == Get(all_institutes, inst)
        inst_lower == Lower(inst)
    IN  IF country = SENTINEL /\ \E n \in 1..Len(affs) : Contains(inst_lower, affs[n])
        THEN TRUE
        ELSE \E n \in 1..Len(affs) :
                /\ Contains(inst_lower, affs[n])
                /\ country # <<>>
                /\ Contains(Lower(country), affs[n])
institute_affiliation_match_All(qry, affs) == \A inst \in qry : RuleTest(inst, affs)
institute_affiliation_match(qry, affs) == \E inst \in qry : RuleTest(inst, affs)

(***************************************************************************)
(* The inputs of a run.                                                    *)
(***************************************************************************)
\* "Xu", "Yi", "In", "na"
Xu == <<88, 117>>
Yi == <<89, 105>>
In == <<73, 110>>
na == <<110, 97>>

\* The institution list files a run may find.
InstFiles ==
    { \* "# c" / "" / ' "Xu" \tNA '
      << <<35, 32, 99, 10>>, <<10>>, <<32, 34, 88, 117, 34, 32, 9, 78, 65, 32, 10>> >>,
      \* "Xu\tNA" / "Yi\t In"
      << <<88, 117, 9, 78, 65, 10>>, <<89, 105, 9, 32, 73, 110, 10>> >>,
      \* "Yi\tNA" / "Yi\tIn": Yi is set twice
      << <<89, 105, 9, 78, 65, 10>>, <<89, 105, 9, 73, 110, 10>> >>,
      \* "# c": no institution
      << <<35, 32, 99, 10>> >>,
      \* "Xu\tNA" / "Yi": one field
      << <<88, 117, 9, 78, 65, 10>>, <<89, 105, 10>> >>,
      \* "Yi\tIn\tz": three fields
      << <<89, 105, 9, 73, 110, 9, 122, 10>> >> }

\* The output file before the run: absent (empty here), or left by an earlier
\* run ("stale\n").
OldFiles == { <<>>, <<115, 116, 97, 108, 101, 10>> }

\* The identifiers lo..hi, as the search endpoint lists them.
IdRange(lo, hi) == [n \in 1..(hi + 1 - lo) |-> Digits(lo + n - 1)]

\* The idlists a search may return: none, a short one (an identifier beyond the
\* large one, then "2"), and a large one, 1 .. 2 * CHUNK_SIZE + ExtraIds.
SearchResults ==
    { <<>>,
      <<Digits(2 * CHUNK_SIZE + ExtraIds + 1), Digits(2)>>,
      IdRange(1, 2 * CHUNK_SIZE + ExtraIds) }

\* The articles a fetch of `chunk` may return.
Articles(chunk) ==
    { \* pmid 2, title "A\tS", journal "J\n1", Year and MedlineDate, "Xu Lab"
      Article(Text(Digits(2)), Text(<<65, 9, 83>>), Text(<<74, 10, 49>>),
              Text(<<50, 48, 50, 48>>), Text(<<50, 48, 50, 48, 32, 74, 97, 110>>),
              <<Str(<<88, 117, 32, 76, 97, 98>>)>>),
      \* pmid 2, no title, no journal, MedlineDate "2020\tJan" only, "YI, IN"
      Article(Text(Digits(2)), Missing, Missing,
              Missing, Text(<<50, 48, 50, 48, 9, 74, 97, 110>>),
              <<Str(<<89, 73, 44, 32, 73, 78>>)>>),
      \* pmid 2, empty title, journal "J", no date, "Yi" and "in" apart
      Article(Text(Digits(2)), Empty, Text(<<74>>),
              Missing, Missing,
              <<Str(<<89, 105>>), Str(<<105, 110>>)>>),
      \* pmid 2, title "B", empty journal, empty Year, MedlineDate "2021",
      \* an empty Affiliation and "xu; yi in"
      Article(Text(Digits(2)), Text(<<66>>), Empty,
              Empty, Text(<<50, 48, 50, 49>>),
              <<None, Str(<<120, 117, 59, 32, 121, 105, 32, 105, 110>>)>>),
      \* no PMID, title "C", journal "J", Year "2022", "C Lab"
      Article(Missing, Text(<<67>>), Text(<<74>>),
              Text(<<50, 48, 50, 50>>), Missing,
              <<Str(<<67, 32, 76, 97, 98>>)>>),
      \* the last pmid of the chunk, title "D", journal "J", Year "2022", "Yi, In"
      Article(Text(chunk[Len(chunk)]), Text(<<68>>), Text(<<74>>),
              Text(<<50, 48, 50, 50>>), Missing,
              <<Str(<<89, 105, 44, 32, 73, 110>>)>>) }

\* The documents a fetch of `chunk` may return: at most n articles.
SeqsUpTo(S, n) == UNION {[1..m -> S] : m \in 0..n}
Docs(chunk, n) == SeqsUpTo(Articles(chunk), n)

(***************************************************************************)
(* main (lines 154-189)                                                    *)
(***************************************************************************)
Init ==
    /\ pc = "read"
    /\ instFile \in InstFiles
    /\ output \in BOOLEAN
    /\ file \in IF output THEN OldFiles ELSE {<<>>}
    /\ fileCreated = FALSE
    /\ inTry = FALSE
    /\ all_institutes = <<>>
    /\ k = 0
    /\ all_pmids = <<>>
    /\ i = 0
    /\ root = <<>>
    /\ j = 0
    /\ rec = NoRec
    /\ qry_institutes = {}
    /\ affiliations = <<>>
    /\ matched = FALSE
    /\ pubs = <<>>
    /\ w = 0
    /\ console = <<>>
    /\ exc = ""
    /\ stderr = ""
    /\ exitStatus = 0
    /\ outstanding = 0
    /\ events = <<>>
    /\ batches = <<>>
    /\ fetched = <<>>

\* lines 165-167: read the list before the try block is entered
ReadInstitutes ==
    /\ pc = "read"
    /\ LET r == read_institute_names(instFile)
       IN  IF r.ok
           THEN /\ all_institutes' = r.institutes
                /\ console' = Append(console, Printed("institutes", Len(r.institutes), NoRec))
                /\ inTry' = TRUE
                /\ pc' = "open"
                /\ exc' = exc
           ELSE /\ exc' = "AssertionError"
                /\ pc' = "raised"
                /\ UNCHANGED <<all_institutes, console, inTry>>
    /\ UNCHANGED <<inputVars, fileVars, k, all_pmids, articleVars, fetchVars, w,
                   stderr, exitStatus, outstanding, events>>

\* open(args.output, "w") and the header line
HeaderFile(old) == HEADER

\* lines 169-174
WriteHeader ==
    /\ pc = "open"
    /\ IF output
       THEN file' = HeaderFile(file) /\ fileCreated' = TRUE
       ELSE UNCHANGED fileVars
    /\ all_pmids' = <<>>
    /\ k' = 1
    /\ pc' = "search"
    /\ UNCHANGED <<inputVars, inTry, all_institutes, articleVars, fetchVars, w, console,
                   exitVars, outstanding, events>>

\* lines 175-176, 139-147: the GET of search_pubmed is sent
SearchCall ==
    /\ pc = "search"
    /\ k <= Len(all_institutes)
    /\ outstanding' = outstanding + 1
    /\ events' = Append(events, "search")
    /\ pc' = "search_wait"
    /\ UNCHANGED <<inputVars, fileVars, inTry, searchVars, articleVars, fetchVars, w,
                   console, exitVars>>

\* lines 179-180: `for pmid in pmids: all_pmids[pmid].add(institute)`, the loop
\* as its result: a key already present gains the institute where it stands, a
\* new key is inserted at its first occurrence in pmids
AddAll(d, pmids, institute) ==
    LET listed == Range(pmids)
        first == SelectSeq([n \in 1..Len(pmids) |-> n],
                           LAMBDA n : /\ pmids[n] \notin KeySet(d)
                                      /\ \A m \in 1..(n - 1) : pmids[m] # pmids[n])
    IN  [n \in 1..Len(d) |->
            IF d[n].key \in listed
            THEN [key |-> d[n].key, val |-> d[n].val \cup {institute}]
            ELSE d[n]]
        \o [n \in 1..Len(first) |-> [key |-> pmids[first[n]], val |-> {institute}]]

\* lines 148-150, 177-180: the response arrives and is added to all_pmids
SearchReturn ==
    /\ pc = "search_wait"
    /\ \E pmids \in SearchResults :
         LET institute == all_institutes[k].key
             \* the count of the response, taken to be that of its idlist
             total_count == Len(pmids)
         IN  /\ all_pmids' = AddAll(all_pmids, pmids, institute)
             /\ console' = IF total_count > 0
                           THEN Append(console, Printed("hits", total_count, NoRec))
                           ELSE console
    /\ outstanding' = outstanding - 1
    /\ pc' = "search_sleep"
    /\ UNCHANGED <<inputVars, fileVars, inTry, all_institutes, k, articleVars, fetchVars,
                   w, exitVars, events>>

\* lines 147-148: the transport fails, or raise_for_status() raises
SearchFail ==
    /\ pc = "search_wait"
    /\ outstanding' = outstanding - 1
    /\ exc' = "RequestException"
    /\ pc' = "raised"
    /\ UNCHANGED <<inputVars, fileVars, inTry, searchVars, articleVars, fetchVars, w,
                   console, stderr, exitStatus, events>>

\* lines 149-150: the body is no JSON, or holds no esearchresult
SearchMalformed ==
    /\ pc = "search_wait"
    /\ outstanding' = outstanding - 1
    /\ exc' = "JSONDecodeError"
    /\ pc' = "raised"
    /\ UNCHANGED <<inputVars, fileVars, inTry, searchVars, articleVars, fetchVars, w,
                   console, stderr, exitStatus, events>>

\* line 181
SearchSleep_Skipped ==
    /\ pc = "search_sleep"
    /\ k' = k + 1
    /\ pc' = "search"
    /\ UNCHANGED <<inputVars, fileVars, inTry, all_institutes, all_pmids, articleVars,
                   fetchVars, w, console, exitVars, outstanding, events>>
SearchSleep ==
    /\ pc = "search_sleep"
    /\ events' = Append(events, "sleep")
    /\ k' = k + 1
    /\ pc' = "search"
    /\ UNCHANGED <<inputVars, fileVars, inTry, all_institutes, all_pmids, articleVars,
                   fetchVars, w, console, exitVars, outstanding>>

\* lines 183-186, 76-77: the loop is over; parse_and_output_publications starts
SearchDone ==
    /\ pc = "search"
    /\ k > Len(all_institutes)
    /\ console' = Append(console, Printed("total", Len(all_pmids), NoRec))
    /\ pubs' = <<>>
    /\ i' = 0
    /\ pc' = "fetch"
    /\ UNCHANGED <<inputVars, fileVars, inTry, searchVars, articleVars, root, j, fetched,
                   batches, w, exitVars, outstanding, events>>

(***************************************************************************)
(* parse_and_output_publications (lines 57-135)                            *)
(***************************************************************************)
Min(a, b) == IF a <= b THEN a ELSE b

\* chunked (lines 61-63): iterable[i:i + n]
Chunk_FromNext(iterable, at, n) == SubSeq(iterable, at + 2, Min(at + n + 1, Len(iterable)))
Chunk(iterable, at, n) == SubSeq(iterable, at + 1, Min(at + n, Len(iterable)))

\* lines 79-80, 45-52: the next chunk is taken and the POST of fetch_pubmed_xml is sent
FetchCall ==
    /\ pc = "fetch"
    /\ i < Len(pmid_list)
    /\ batches' = Append(batches, Chunk(pmid_list, i, CHUNK_SIZE))
    /\ outstanding' = outstanding + 1
    /\ events' = Append(events, "fetch")
    /\ pc' = "fetch_wait"
    /\ UNCHANGED <<inputVars, fileVars, inTry, searchVars, articleVars, i, root, j, pubs,
                   fetched, w, console, exitVars>>

\* lines 53-54, 81: the response arrives and parses
FetchReturn ==
    /\ pc = "fetch_wait"
    /\ \E doc \in Docs(batches[Len(batches)], MaxArticles - Len(fetched)) :
         /\ root' = doc
         /\ fetched' = fetched \o doc
    /\ j' = 0
    /\ outstanding' = outstanding - 1
    /\ pc' = "parse"
    /\ UNCHANGED <<inputVars, fileVars, inTry, searchVars, articleVars, i, pubs, batches,
                   w, console, exitVars, events>>

\* lines 52-53: the transport fails, or raise_for_status() raises
FetchFail ==
    /\ pc = "fetch_wait"
    /\ outstanding' = outstanding - 1
    /\ exc' = "RequestException"
    /\ pc' = "raised"
    /\ UNCHANGED <<inputVars, fileVars, inTry, searchVars, articleVars, fetchVars, w,
                   console, stderr, exitStatus, events>>

\* line 81: ET.fromstring raises on a body that is no XML
FetchMalformed ==
    /\ pc = "fetch_wait"
    /\ outstanding' = outstanding - 1
    /\ exc' = "ParseError"
    /\ pc' = "raised"
    /\ UNCHANGED <<inputVars, fileVars, inTry, searchVars, articleVars, fetchVars, w,
                   console, stderr, exitStatus, events>>

\* line 98: `pmid in all_pmids`
Known(pmid) == ~pmid.none /\ pmid.s \in KeySet(all_pmids)
\* line 100
InstitutesStr(qry) == Join(Sorted(qry), SEMI)

\* lines 129-135: the row of one pub
Row(pub) ==
    Sanitize(OrEmpty(pub.title)) \o <<TAB>> \o Sanitize(OrEmpty(pub.journal)) \o <<TAB>>
        \o Sanitize(OrEmpty(pub.pubdate)) \o <<TAB>> \o OrEmpty(pub.pmid) \o <<TAB>>
        \o pub.url \o <<TAB>> \o pub.institutes \o <<LF>>

\* lines 83-120, with the row of a matched article written at once
ProcessArticle_WriteThrough ==
    /\ pc = "parse"
    /\ j < Len(root)
    /\ LET article == root[j + 1]
           pmid == TextOrEmpty(article.PMID)
           qry == IF Known(pmid) THEN Get(all_pmids, pmid.s) ELSE qry_institutes
           affs == IF Known(pmid) THEN Affiliations(article) ELSE affiliations
           pub == [pmid |-> pmid,
                   title |-> TextOrEmpty(article.ArticleTitle),
                   journal |-> TextOrEmpty(article.JournalTitle),
                   pubdate |-> PubDate(article),
                   url |-> URL_BASE \o Format(pmid),
                   institutes |-> IF Known(pmid) THEN InstitutesStr(qry) ELSE <<>>]
           match == IF Known(pmid) THEN institute_affiliation_match(qry, affs) ELSE FALSE
       IN  /\ rec' = pub
           /\ qry_institutes' = qry
           /\ affiliations' = affs
           /\ matched' = match
           /\ IF match
              THEN /\ console' = Append(console, Printed("block", 0, pub))
                   /\ pubs' = Append(pubs, pub)
              ELSE UNCHANGED <<console, pubs>>
           /\ file' = IF match /\ output THEN file \o Row(pub) ELSE file
    /\ j' = j + 1
    /\ UNCHANGED <<pc, inputVars, fileCreated, inTry, searchVars, i, root, fetched, batches,
                   w, exitVars, outstanding, events>>

\* lines 83-120: one article of the document
ProcessArticle ==
    /\ pc = "parse"
    /\ j < Len(root)
    /\ LET article == root[j + 1]
           pmid == TextOrEmpty(article.PMID)
           qry == IF Known(pmid) THEN Get(all_pmids, pmid.s) ELSE qry_institutes
           affs == IF Known(pmid) THEN Affiliations(article) ELSE affiliations
           pub == [pmid |-> pmid,
                   title |-> TextOrEmpty(article.ArticleTitle),
                   journal |-> TextOrEmpty(article.JournalTitle),
                   pubdate |-> PubDate(article),
                   url |-> URL_BASE \o Format(pmid),
                   institutes |-> IF Known(pmid) THEN InstitutesStr(qry) ELSE <<>>]
           match == IF Known(pmid) THEN institute_affiliation_match(qry, affs) ELSE FALSE
       IN  /\ rec' = pub
           /\ qry_institutes' = qry
           /\ affiliations' = affs
           /\ matched' = match
           /\ IF match
              THEN /\ console' = Append(console, Printed("block", 0, pub))
                   /\ pubs' = Append(pubs, pub)
              ELSE UNCHANGED <<console, pubs>>
    /\ j' = j + 1
    /\ UNCHANGED <<pc, inputVars, fileVars, inTry, searchVars, i, root, fetched, batches,
                   w, exitVars, outstanding, events>>

\* line 121, and the generator's step to the next chunk
FetchSleep ==
    /\ pc = "parse"
    /\ j = Len(root)
    /\ events' = Append(events, "sleep")
    /\ i' = i + CHUNK_SIZE
    /\ pc' = "fetch"
    /\ UNCHANGED <<inputVars, fileVars, inTry, searchVars, articleVars, root, j, pubs,
                   fetched, batches, w, console, exitVars, outstanding>>

\* lines 124-127: the chunks are exhausted
FetchDone ==
    /\ pc = "fetch"
    /\ i >= Len(pmid_list)
    /\ console' = Append(console, Printed("count", Len(pubs), NoRec))
    /\ w' = 0
    /\ pc' = "write"
    /\ UNCHANGED <<inputVars, fileVars, inTry, searchVars, articleVars, fetchVars,
                   exitVars, outstanding, events>>

\* lines 126-135: one row is appended
WriteRow ==
    /\ pc = "write"
    /\ output
    /\ w < Len(pubs)
    /\ file' = file \o Row(pubs[w + 1])
    /\ w' = w + 1
    /\ UNCHANGED <<pc, inputVars, fileCreated, inTry, searchVars, articleVars, fetchVars,
                   console, exitVars, outstanding, events>>

\* main returns: exit status 0
Finish ==
    /\ pc = "write"
    /\ ~output \/ w = Len(pubs)
    /\ exitStatus' = 0
    /\ pc' = "exit"
    /\ UNCHANGED <<inputVars, fileVars, inTry, searchVars, articleVars, fetchVars, w,
                   console, exc, stderr, outstanding, events>>

\* lines 187-189: the handler of main's try block
HandleException ==
    /\ pc = "raised"
    /\ inTry
    /\ stderr' = "Error"
    /\ exitStatus' = 1
    /\ pc' = "exit"
    /\ UNCHANGED <<inputVars, fileVars, inTry, searchVars, articleVars, fetchVars, w,
                   console, exc, outstanding, events>>

\* an exception raised outside the try block (line 165): the interpreter prints
\* the traceback and exits with status 1
Uncaught ==
    /\ pc = "raised"
    /\ ~inTry
    /\ stderr' = "Traceback"
    /\ exitStatus' = 1
    /\ pc' = "exit"
    /\ UNCHANGED <<inputVars, fileVars, inTry, searchVars, articleVars, fetchVars, w,
                   console, exc, outstanding, events>>

Next ==
    \/ ReadInstitutes
    \/ WriteHeader
    \/ SearchCall
    \/ SearchReturn
    \/ SearchFail
    \/ SearchMalformed
    \/ SearchSleep
    \/ SearchDone
    \/ FetchCall
    \/ FetchReturn
    \/ FetchFail
    \/ FetchMalformed
    \/ ProcessArticle
    \/ FetchSleep
    \/ FetchDone
    \/ WriteRow
    \/ Finish
    \/ HandleException
    \/ Uncaught

Spec == Init /\ [][Next]_vars

(***************************************************************************)
(* The matcher on its own: one article whose identifier the searches       *)
(* attributed to the institutions qry, about to be processed.  The         *)
(* institution list, the attributed set and the affiliation texts are      *)
(* drawn from wider sets than in Spec.                                     *)
(***************************************************************************)
\* "name\tcountry\n"
ListLine(name, country) == name \o <<TAB>> \o country \o <<LF>>
MatchCountries == {SENTINEL, In, na}
MatchFiles ==
    {<<ListLine(name, c)>> : name \in {Xu, Yi}, c \in MatchCountries}
        \cup {<<ListLine(Xu, c), ListLine(Yi, d)>> : c \in MatchCountries, d \in MatchCountries}

\* None, "Xu Lab", "YI", "in", "Yi, IN", "nA xu"
AffTexts ==
    { None, Str(<<88, 117, 32, 76, 97, 98>>), Str(<<89, 73>>), Str(<<105, 110>>),
      Str(<<89, 105, 44, 32, 73, 78>>), Str(<<110, 65, 32, 120, 117>>) }

\* stdout and the calls so far when every search of an institution of qry
\* returned the one identifier and every other search none
RECURSIVE HitsPrinted(_, _)
HitsPrinted(names, qry) ==
    IF names = <<>> THEN <<>>
    ELSE (IF names[1] \in qry THEN <<Printed("hits", 1, NoRec)>> ELSE <<>>)
             \o HitsPrinted(Tail(names), qry)
RECURSIVE SearchEvents(_)
SearchEvents(n) == IF n = 0 THEN <<>> ELSE <<"search", "sleep">> \o SearchEvents(n - 1)

InitMatch ==
    /\ pc = "parse"
    /\ instFile \in MatchFiles
    /\ output = FALSE
    /\ file = <<>>
    /\ fileCreated = FALSE
    /\ inTry = TRUE
    /\ all_institutes = read_institute_names(instFile).institutes
    /\ k = Len(all_institutes) + 1
    /\ qry_institutes = {}
    /\ \E qry \in (SUBSET KeySet(all_institutes)) \ {{}} :
         /\ all_pmids = <<[key |-> Digits(2), val |-> qry]>>
         /\ console = <<Printed("institutes", Len(all_institutes), NoRec)>>
                          \o HitsPrinted(Keys(all_institutes), qry)
                          \o <<Printed("total", 1, NoRec)>>
    /\ i = 0
    /\ \E affs \in SeqsUpTo(AffTexts, MaxAffs) :
         root = <<Article(Text(Digits(2)), Text(<<69>>), Text(<<74>>),
                          Text(<<50, 48, 50, 48>>), Missing, affs)>>
    /\ fetched = root
    /\ j = 0
    /\ rec = NoRec
    /\ affiliations = <<>>
    /\ matched = FALSE
    /\ pubs = <<>>
    /\ w = 0
    /\ exc = ""
    /\ stderr = ""
    /\ exitStatus = 0
    /\ outstanding = 0
    /\ events = SearchEvents(Len(all_institutes)) \o <<"fetch">>
    /\ batches = <<pmid_list>>

NextMatch == ProcessArticle

SpecMatch == InitMatch /\ [][NextMatch]_vars

(***************************************************************************)
(* What the claims speak of.                                               *)
(***************************************************************************)
\* The lines of a text, without their line ends.
Lines(text) ==
    LET parts == Split(text, LF)
    IN  IF parts[Len(parts)] = <<>> THEN SubSeq(parts, 1, Len(parts) - 1) ELSE parts
\* The tab-separated fields of a line.
Fields(line) == Split(line, TAB)
\* The rows of the output file: its lines after the first.
Rows(text) == Tail(Lines(text))
HeaderLine == Lines(HEADER)[1]

\* The articles returned so far that the loop of line 82 has gone through.
Processed == SubSeq(fetched, 1, (Len(fetched) + j) - Len(root))

\* The institutions whose search returned the article's identifier.
Attributed(article) ==
    LET pmid == TextOrEmpty(article.PMID)
    IN  IF ~pmid.none /\ pmid.s \in KeySet(all_pmids) THEN Get(all_pmids, pmid.s) ELSE {}
\* The lower-cased affiliation strings of an article.
LowerAffs(article) == {Lower(t.s) : t \in {x \in Range(article.Affiliation) : ~x.none}}
\* The rule of an institution, as the specification states it: the name in some
\* affiliation string, and, with a country qualifier, the country in the same one.
RuleHolds(inst, article) ==
    \E aff \in LowerAffs(article) :
        /\ Contains(Lower(inst), aff)
        /\ \/ Get(all_institutes, inst) = SENTINEL
           \/ Contains(Lower(Get(all_institutes, inst)), aff)
MatchedRules(article) == {inst \in Attributed(article) : RuleHolds(inst, article)}
IncludedByAttributedRule(article) == MatchedRules(article) # {}
IncludedByAnyRule(article) == \E inst \in KeySet(all_institutes) : RuleHolds(inst, article)

Blocks == SelectSeq(console, LAMBDA l : l.kind = "block")
Succeeded == pc = "exit" /\ exc = ""

\* The report holds exactly the articles of `inc`, in order: in pubs, in the
\* console blocks and, at a successful end, in the rows of the output file.
ReportIs(inc) ==
    /\ Len(pubs) = Len(inc)
    /\ \A n \in 1..Len(pubs) :
         /\ n <= Len(inc)
         /\ pubs[n].pmid = TextOrEmpty(inc[n].PMID)
         /\ pubs[n].title = TextOrEmpty(inc[n].ArticleTitle)
    /\ Len(Blocks) = Len(pubs)
    /\ \A n \in 1..Len(Blocks) : n <= Len(pubs) /\ Blocks[n].pub = pubs[n]
    /\ (Succeeded /\ output) =>
         /\ Len(Rows(file)) = Len(inc)
         /\ \A n \in 1..Len(inc) :
              /\ n <= Len(Rows(file))
              /\ Len(Fields(Rows(file)[n])) >= 4
              /\ Fields(Rows(file)[n])[4] = OrEmpty(TextOrEmpty(inc[n].PMID))

(***************************************************************************)
(* C1 (as stated): an article returned by a fetch is in the report (pubs,  *)
(* console block, output row) if and only if the rule of at least one      *)
(* institution of the list succeeds against its affiliation strings.       *)
(***************************************************************************)
C1_IncludedIffAnyRuleSucceeds == ReportIs(SelectSeq(Processed, IncludedByAnyRule))

(***************************************************************************)
(* C1 (amended): an article returned by a fetch is in the report if and    *)
(* only if the rule of at least one institution whose search returned the  *)
(* article's identifier succeeds against its affiliation strings.          *)
(***************************************************************************)
C1_IncludedIffAttributedRuleSucceeds ==
    ReportIs(SelectSeq(Processed, IncludedByAttributedRule))

\* C1's case: a run ended well that kept one of two articles and wrote its row.
C1_Witness ==
    /\ Succeeded
    /\ output
    /\ Len(Processed) = 2
    /\ Len(pubs) = 1
    /\ Len(Rows(file)) = 1

(***************************************************************************)
(* C2: in every entry and row of the report, the Institutes field is the   *)
(* semicolon-joined sorted list of exactly the attributed institutions     *)
(* whose own rule succeeded against the article's affiliations.            *)
(***************************************************************************)
C2_InstitutesAreTheMatchedRules ==
    LET inc == SelectSeq(Processed, IncludedByAttributedRule)
    IN  /\ \A n \in 1..Len(pubs) :
             n <= Len(inc) => pubs[n].institutes = Join(Sorted(MatchedRules(inc[n])), SEMI)
        /\ fileCreated =>
             \A n \in 1..Len(Rows(file)) :
                 (n <= Len(inc) /\ Len(Fields(Rows(file)[n])) = 6) =>
                     Fields(Rows(file)[n])[6] = Join(Sorted(MatchedRules(inc[n])), SEMI)

(***************************************************************************)
(* C3: when every institution attributed to an article has a country       *)
(* qualifier, the match succeeds only if, for one of them, a single         *)
(* affiliation string contains both the lower-cased name and the           *)
(* lower-cased country.                                                    *)
(***************************************************************************)
Qualified(inst) == Get(all_institutes, inst) # SENTINEL
JustProcessed == pc = "parse" /\ j = 1 /\ Len(root) = 1
C3_CountryRuleNeedsOneString ==
    (JustProcessed /\ \A inst \in qry_institutes : Qualified(inst)) =>
        (matched =>
            \E inst \in qry_institutes : \E aff \in LowerAffs(root[1]) :
                /\ Contains(Lower(inst), aff)
                /\ Contains(Lower(Get(all_institutes, inst)), aff))

\* C3's case: a single qualified rule, its name in one affiliation string and its
\* country in another one only: no match.
C3_Witness ==
    /\ JustProcessed
    /\ qry_institutes = {Yi}
    /\ Get(all_institutes, Yi) = In
    /\ \E aff \in LowerAffs(root[1]) : Contains(Lower(Yi), aff) /\ ~Contains(Lower(In), aff)
    /\ \E aff \in LowerAffs(root[1]) : Contains(Lower(In), aff) /\ ~Contains(Lower(Yi), aff)
    /\ ~matched

(***************************************************************************)
(* C4: when every institution attributed to an article has the country     *)
(* "NA", the match succeeds if and only if the lower-cased name of one of  *)
(* them is a substring of at least one lower-cased affiliation string,     *)
(* whatever country text the affiliations hold.                            *)
(***************************************************************************)
C4_SentinelRuleIsNameOnly ==
    (JustProcessed /\ \A inst \in qry_institutes : ~Qualified(inst)) =>
        (matched <=>
            \E inst \in qry_institutes : \E aff \in LowerAffs(root[1]) :
                Contains(Lower(inst), aff))

\* C4's case: the single rule Xu/NA matched on an affiliation without "na" in it.
C4_Witness ==
    /\ JustProcessed
    /\ qry_institutes = {Xu}
    /\ Get(all_institutes, Xu) = SENTINEL
    /\ \A aff \in LowerAffs(root[1]) : ~Contains(Lower(SENTINEL), aff)
    /\ matched

(***************************************************************************)
(* C5: every batch fetched is non-empty and holds at most 250 identifiers, *)
(* all but the last hold exactly 250, the batches in issue order make up   *)
(* the identifier list from its start, and once the loop is over they      *)
(* make up the whole list in ceil(N/250) fetch calls (none for N = 0).     *)
(***************************************************************************)
RECURSIVE Concat(_)
Concat(seqs) == IF seqs = <<>> THEN <<>> ELSE seqs[1] \o Concat(Tail(seqs))
LoopOver == pc = "write" \/ Succeeded
C5_BatchesPartitionTheList ==
    /\ \A n \in 1..Len(batches) :
         /\ Len(batches[n]) >= 1
         /\ Len(batches[n]) <= 250
         /\ n < Len(batches) => Len(batches[n]) = 250
    /\ Len(Concat(batches)) <= Len(pmid_list)
    /\ Concat(batches) = SubSeq(pmid_list, 1, Len(Concat(batches)))
    /\ LoopOver =>
         /\ Concat(batches) = pmid_list
         /\ Len(batches) = (Len(pmid_list) + 249) \div 250
         /\ Cardinality(Range(Concat(batches))) = Len(pmid_list)

\* C5's case: the loop is over after two full batches and a shorter third one.
C5_Witness ==
    /\ LoopOver
    /\ Len(batches) = 3
    /\ Len(batches[3]) < 250

(***************************************************************************)
(* C6: every failure (a search or fetch call failing, an unparsable JSON   *)
(* or XML body, a malformed line of the institution list) is caught by     *)
(* the handler of main, reported as the one line "Error: ..." on the error *)
(* stream, and ends the process with a non-zero exit status.               *)
(***************************************************************************)
C6_EveryFailureIsCaught ==
    (pc = "exit" /\ exc # "") => (inTry /\ stderr = "Error" /\ exitStatus # 0)

(***************************************************************************)
(* C7: at most one call is outstanding at any time, a sleep is executed    *)
(* between any two successive calls, and no search follows a fetch.        *)
(***************************************************************************)
C7_SequentialAndPaced ==
    /\ outstanding <= 1
    /\ \A n \in 2..Len(events) : events[n] # "sleep" => events[n - 1] = "sleep"
    /\ \A m \in 1..Len(events) : \A n \in m..Len(events) :
         events[m] = "fetch" => events[n] # "search"

\* C7's case: two searches, then two fetches, a sleep before each but the first.
C7_Witness ==
    /\ Len(events) >= 7
    /\ SubSeq(events, 1, 7) = <<"search", "sleep", "search", "sleep", "fetch", "sleep", "fetch">>
    /\ outstanding = 1

(***************************************************************************)
(* C8: once the output file is created its first line is the header; the   *)
(* file is only ever appended to; every row has exactly six tab-separated  *)
(* fields (the rows written are as many lines, so no field holds a line    *)
(* end), and at a successful end there is one row per matched record, in   *)
(* the order the records were matched.                                     *)
(***************************************************************************)
IsPrefix(a, b) == Len(a) <= Len(b) /\ SubSeq(b, 1, Len(a)) = a
ReportWellFormed ==
    fileCreated =>
        /\ Lines(file)[1] = HeaderLine
        /\ IsPrefix(HEADER, file)
        /\ Len(Rows(file)) = w
        /\ \A n \in 1..Len(Rows(file)) :
             /\ Len(Fields(Rows(file)[n])) = 6
             /\ n <= Len(pubs)
             /\ Fields(Rows(file)[n])[4] = OrEmpty(pubs[n].pmid)
             /\ Fields(Rows(file)[n])[5] = pubs[n].url
             /\ Fields(Rows(file)[n])[6] = pubs[n].institutes
        /\ Succeeded => w = Len(pubs)
C8_HeaderThenAppendedRows ==
    /\ []ReportWellFormed
    /\ [][fileCreated => IsPrefix(file, file')]_vars

\* C8's case: a run ended well with two rows, one of an article whose title and
\* journal hold a tab and a line end.
C8_Witness ==
    /\ Succeeded
    /\ fileCreated
    /\ Len(pubs) = 2
    /\ w = 2
    /\ \E n \in 1..2 : TAB \in Range(OrEmpty(pubs[n].title)) /\ LF \in Range(OrEmpty(pubs[n].journal))

(***************************************************************************)
(* C9: the date extracted from an article is the text of its Year element  *)
(* when there is one, else the text of its MedlineDate element when there  *)
(* is one, else the empty string; a missing PMID, title or journal element *)
(* gives the empty string; and no article of a batch stops the extraction  *)
(* of those after it.                                                      *)
(***************************************************************************)
C9_ExtractedFields ==
    /\ (pc = "parse" /\ j >= 1) =>
         LET article == root[j]
         IN  /\ article.Year.elem => rec.pubdate = article.Year.text
             /\ (~article.Year.elem /\ article.MedlineDate.elem) =>
                    rec.pubdate = article.MedlineDate.text
             /\ (~article.Year.elem /\ ~article.MedlineDate.elem) => rec.pubdate = Str(<<>>)
             /\ ~article.PMID.elem => rec.pmid = Str(<<>>)
             /\ ~article.ArticleTitle.elem => rec.title = Str(<<>>)
             /\ ~article.JournalTitle.elem => rec.journal = Str(<<>>)
             /\ article.PMID.elem => rec.pmid = article.PMID.text
             /\ article.ArticleTitle.elem => rec.title = article.ArticleTitle.text
             /\ article.JournalTitle.elem => rec.journal = article.JournalTitle.text
    /\ pc = "parse" => exc = ""
    /\ pc \in {"fetch", "fetch_wait", "write"} => j = Len(root)

\* C9's case: an article without title, journal and Year, dated by its
\* MedlineDate, and the article after it extracted too.
C9_Witness ==
    /\ pc = "parse"
    /\ j = 2
    /\ ~root[1].ArticleTitle.elem /\ ~root[1].JournalTitle.elem /\ ~root[1].Year.elem
    /\ root[1].MedlineDate.elem
    /\ pubs # <<>> /\ pubs[1].pubdate = root[1].MedlineDate.text
    /\ rec.pmid = root[2].PMID.text

(***************************************************************************)
(* C10: in a run where a search call, a fetch call or the parse of a       *)
(* response fails, the output file (when asked for) holds the header line  *)
(* and no row, also when records were matched and printed before.          *)
(***************************************************************************)
CallFailed == exc \in {"RequestException", "JSONDecodeError", "ParseError"}
C10_NoRowsAfterFailure ==
    (CallFailed /\ output) => (file = HEADER /\ Rows(file) = <<>>)

\* C10's case: the second fetch fails after the first batch matched a record.
C10_Witness ==
    /\ pc = "exit"
    /\ CallFailed
    /\ output
    /\ Len(batches) = 2
    /\ pubs # <<>>
    /\ Blocks # <<>>

=============================================================================
